---- MODULE Spec2Model ----
(***************************************************************************)
(* A model of gogram's request dispatcher (network.go: sendPacket,         *)
(* writeRPCResponse, UpdateSeqNo) and of its entity cache                  *)
(* (telegram/cache.go).  The dispatcher lives in specification Spec, the   *)
(* cache in specification CacheSpec; each leaves the other's variables     *)
(* alone.                                                                  *)
(***************************************************************************)
EXTENDS Integers, Sequences, FiniteSets, TLC

\* ------------------------------------------------------------------ bounds
NumProcs == 2
MaxCalls == 2
MaxMsgID == 2

MaxID == 1
MaxHash == 2
BigID == 12
NumGoroutines == 3

Procs == 1..NumProcs
MsgIDs == 1..MaxMsgID
ServiceChan == 0
NoChan == -1

\* The request kinds sendPacket distinguishes (network.go:87-94) and one
\* ordinary RPC call.
Requests == {"Pong", "MsgsAck", "Invoke"}
Values == {"r1", "r2"}

VARIABLES
  lastMessageID,         \* m.lastMessageID
  seqNo,                 \* m.seqNo
  encrypted,             \* m.encrypted
  serviceModeActivated,  \* m.serviceModeActivated
  transport,             \* m.transport # nil
  expectedTypes,         \* m.expectedTypes: msgID -> hints
  responseChannels,      \* m.responseChannels: msgID -> channel
  pc,                    \* per caller: position inside sendPacket / makeRequest
  loc,                   \* per caller: sendPacket's local variables
  outcome,               \* the last thing a caller got back: an error of sendPacket
                         \* or a value received from its reply channel
  router,                \* the inbound path: position inside writeRPCResponse
  rResult,               \* what the last writeRPCResponse call returned
  nullSenders,           \* channel -> goroutines blocked in `resp <- &objects.Null{}`
  wire,                  \* the frames handed to transport.WriteMsg
  written,               \* number of transport.WriteMsg calls
  generated,             \* msgID -> number of times GenerateMessageId returned it
  calls,                 \* sendPacket calls that got past tl.Marshal
  chanCount,             \* channels made by getRespChannel
  delivered              \* msgID -> number of values writeRPCResponse sent for it

netVars == <<lastMessageID, seqNo, encrypted, serviceModeActivated, transport,
             expectedTypes, responseChannels, pc, loc, outcome, router, rResult,
             nullSenders, wire, written, generated, calls, chanCount, delivered>>

VARIABLES
  users,          \* c.users: ID -> *UserObj
  chats,          \* c.chats: ID -> *ChatObj
  channels,       \* c.channels: ID -> *Channel
  InputUsers,     \* c.InputPeers.InputUsers: ID -> access hash
  InputChats,     \* c.InputPeers.InputChats
  InputChannels,  \* c.InputPeers.InputChannels
  readers,        \* holders of the cache RWMutex in read mode
  fetch,          \* the delegated request a get*FromCache call is suspended on
  batch,          \* what UpdatePeersToCache has still to go through
  last,           \* the last lookup call (GetUser, GetChannel, GetChat,
                  \* GetInputPeer) and what it returned
  touched         \* user IDs whose index entry ImportJSON wrote after UpdateUser

cacheVars == <<users, chats, channels, InputUsers, InputChats, InputChannels,
               readers, fetch, batch, last, touched>>

VARIABLES
  journal,     \* the file cache.journal
  timers,      \* time.AfterFunc timers armed to run flushToFile
  loadResult,  \* what loadFromFile did when startCacheFileUpdater ran
  signalled,   \* writeOnKill has received its signal
  exported     \* the bytes the last ExportJSON call returned, and the index
               \* they were made from

journalVars == <<journal, timers, loadResult, signalled, exported>>

VARIABLES
  writer,      \* the goroutine holding the cache RWMutex exclusively, or 0
  gor          \* per goroutine: the cache operation it is inside

lockVars == <<writer, gor>>

vars == <<netVars, cacheVars, journalVars, lockVars>>

\* ------------------------------------------------------------ pure helpers
\* utils.SyncIntObjectChan / SyncIntReflectTypes: Add, Delete on a locked map.
Put(m, k, v) == [x \in (DOMAIN m) \cup {k} |-> IF x = k THEN v ELSE m[x]]

Del(m, k) == [x \in (DOMAIN m) \ {k} |-> m[x]]

EmptyMap == [x \in {} |-> 0]

\* x + 2 in int32 arithmetic (m.seqNo += 2 wraps at 2^31).
Int32Add2(x) == IF x >= 2147483646 THEN (x - 2147483647) - 2147483647 ELSE x + 2

\* utils.GenerateMessageId(prev): some ID greater than prev.
GenerateMessageId(prev) == {id \in MsgIDs : id > prev}

isNullableResponse(t) == t \in {"Pong", "MsgsAck"}

MessageRequireToAck(t) == t # "MsgsAck"

NoLocals == [req |-> "none", types |-> FALSE, msgID |-> 0, resp |-> NoChan,
             env |-> "none", hash |-> FALSE, seq |-> 0]

NoOutcome == [proc |-> 0, res |-> "none"]

IdleRouter == [pc |-> "idle", msgID |-> 0, data |-> "none", ch |-> NoChan]

\* -------------------------------------------------------------------- Init
NetInit ==
  /\ lastMessageID = 0
  /\ seqNo = 0
  /\ encrypted \in BOOLEAN
  /\ serviceModeActivated = ~encrypted
  /\ transport \in BOOLEAN
  /\ expectedTypes = EmptyMap
  /\ responseChannels = EmptyMap
  /\ pc = [p \in Procs |-> "idle"]
  /\ loc = [p \in Procs |-> NoLocals]
  /\ outcome = NoOutcome
  /\ router = IdleRouter
  /\ rResult = "none"
  /\ nullSenders = [c \in 0..MaxCalls |-> 0]
  /\ wire = {}
  /\ written = 0
  /\ generated = [i \in MsgIDs |-> 0]
  /\ calls = 0
  /\ chanCount = 0
  /\ delivered = [i \in MsgIDs |-> 0]

\* --------------------------------------------------- sendPacket (network.go)
\* network.go:17-21: tl.Marshal(request); a failure returns before anything
\* is allocated.
SendMarshalFail(p) ==
  /\ pc[p] = "idle"
  /\ calls < MaxCalls
  /\ outcome' = [proc |-> p, res |-> "EncodingFailed"]
  /\ UNCHANGED <<lastMessageID, seqNo, encrypted, serviceModeActivated, transport,
                 expectedTypes, responseChannels, pc, loc, router, rResult,
                 nullSenders, wire, written, generated, calls, chanCount, delivered>>
  /\ UNCHANGED <<cacheVars, journalVars, lockVars>>

SendStart(p, request, hints) ==
  /\ pc[p] = "idle"
  /\ calls < MaxCalls
  /\ pc' = [pc EXCEPT ![p] = "gen"]
  /\ loc' = [loc EXCEPT ![p] = [NoLocals EXCEPT !.req = request, !.types = hints]]
  /\ calls' = calls + 1
  /\ UNCHANGED <<lastMessageID, seqNo, encrypted, serviceModeActivated, transport,
                 expectedTypes, responseChannels, outcome, router, rResult,
                 nullSenders, wire, written, generated, chanCount, delivered>>
  /\ UNCHANGED <<cacheVars, journalVars, lockVars>>

\* network.go:22-27: under lastMessageIDMutex, msgID is computed from the
\* stored m.lastMessageID; the mutex is released before the store.
SendGenerate(p) ==
  /\ pc[p] = "gen"
  /\ \E id \in GenerateMessageId(lastMessageID) :
       /\ loc' = [loc EXCEPT ![p].msgID = id]
       /\ generated' = [generated EXCEPT ![id] = @ + 1]
  /\ pc' = [pc EXCEPT ![p] = "store"]
  /\ UNCHANGED <<lastMessageID, seqNo, encrypted, serviceModeActivated, transport,
                 expectedTypes, responseChannels, outcome, router, rResult,
                 nullSenders, wire, written, calls, chanCount, delivered>>
  /\ UNCHANGED <<cacheVars, journalVars, lockVars>>

\* network.go:28: m.lastMessageID = msgID, outside the mutex.
SendStoreID(p) ==
  /\ pc[p] = "store"
  /\ lastMessageID' = loc[p].msgID
  /\ pc' = [pc EXCEPT ![p] = "types"]
  /\ UNCHANGED <<seqNo, encrypted, serviceModeActivated, transport, expectedTypes,
                 responseChannels, loc, outcome, router, rResult, nullSenders, wire,
                 written, generated, calls, chanCount, delivered>>
  /\ UNCHANGED <<cacheVars, journalVars, lockVars>>

\* network.go:31-33: the hints are recorded whatever the request kind.
SendAddTypes(p) ==
  /\ pc[p] = "types"
  /\ expectedTypes' = IF loc[p].types
                        THEN Put(expectedTypes, loc[p].msgID, "hints")
                        ELSE expectedTypes
  /\ pc' = [pc EXCEPT ![p] = "chan"]
  /\ UNCHANGED <<lastMessageID, seqNo, encrypted, serviceModeActivated, transport,
                 responseChannels, loc, outcome, router, rResult, nullSenders, wire,
                 written, generated, calls, chanCount, delivered>>
  /\ UNCHANGED <<cacheVars, journalVars, lockVars>>

\* network.go:80-85: the shared service channel in service mode, else a
\* fresh unbuffered channel.
getRespChannel == IF serviceModeActivated THEN ServiceChan ELSE chanCount + 1

\* network.go:36-41: a nullable request starts a goroutine that sends Null
\* on resp; any other request registers resp under msgID.
SendRegister(p) ==
  /\ pc[p] = "chan"
  /\ LET resp == getRespChannel IN
       /\ loc' = [loc EXCEPT ![p].resp = resp]
       /\ chanCount' = IF serviceModeActivated THEN chanCount ELSE chanCount + 1
       /\ IF isNullableResponse(loc[p].req)
            THEN /\ nullSenders' = [nullSenders EXCEPT ![resp] = @ + 1]
                 /\ UNCHANGED responseChannels
            ELSE /\ responseChannels' = Put(responseChannels, loc[p].msgID, resp)
                 /\ UNCHANGED nullSenders
  /\ pc' = [pc EXCEPT ![p] = "env"]
  /\ UNCHANGED <<lastMessageID, seqNo, encrypted, serviceModeActivated, transport,
                 expectedTypes, outcome, router, rResult, wire, written, generated,
                 calls, delivered>>
  /\ UNCHANGED <<cacheVars, journalVars, lockVars>>

\* network.go:43-54: the envelope is chosen by the first read of m.encrypted.
SendEnvelope(p) ==
  /\ pc[p] = "env"
  /\ loc' = [loc EXCEPT ![p].env = IF encrypted THEN "Encrypted" ELSE "Unencrypted",
                        ![p].hash = encrypted]
  /\ pc' = [pc EXCEPT ![p] = "seq"]
  /\ UNCHANGED <<lastMessageID, seqNo, encrypted, serviceModeActivated, transport,
                 expectedTypes, responseChannels, outcome, router, rResult,
                 nullSenders, wire, written, generated, calls, chanCount, delivered>>
  /\ UNCHANGED <<cacheVars, journalVars, lockVars>>

\* A counter advanced by one instead of two.
UpdateSeqNoByOne == seqNo + 1

\* network.go:105-111: under seqNoMutex, m.seqNo += 2 and the new value.
UpdateSeqNo == Int32Add2(seqNo)

\* network.go:55-58: every call advances the counter; the second read of
\* m.encrypted zeroes the local copy only.
SendSeqNo(p) ==
  /\ pc[p] = "seq"
  /\ seqNo' = UpdateSeqNo
  /\ loc' = [loc EXCEPT ![p].seq = IF encrypted THEN UpdateSeqNo ELSE 0]
  /\ pc' = [pc EXCEPT ![p] = "write"]
  /\ UNCHANGED <<lastMessageID, encrypted, serviceModeActivated, transport,
                 expectedTypes, responseChannels, outcome, router, rResult,
                 nullSenders, wire, written, generated, calls, chanCount, delivered>>
  /\ UNCHANGED <<cacheVars, journalVars, lockVars>>

Frame(p) == [msgID |-> loc[p].msgID, seqNo |-> loc[p].seq, env |-> loc[p].env,
             hash |-> loc[p].hash, ack |-> MessageRequireToAck(loc[p].req)]

\* network.go:59-61: no transport: the call returns an error, after the
\* registrations above.
SendNoTransport(p) ==
  /\ pc[p] = "write"
  /\ ~transport
  /\ outcome' = [proc |-> p, res |-> "NotConnected"]
  /\ pc' = [pc EXCEPT ![p] = "idle"]
  /\ loc' = [loc EXCEPT ![p] = NoLocals]
  /\ UNCHANGED <<lastMessageID, seqNo, encrypted, serviceModeActivated, transport,
                 expectedTypes, responseChannels, router, rResult, nullSenders, wire,
                 written, generated, calls, chanCount, delivered>>
  /\ UNCHANGED <<cacheVars, journalVars, lockVars>>

\* network.go:62-66: transport.WriteMsg(data, ack, seqNo); on success the
\* caller gets resp and (makeRequest) receives from it.
SendWrite(p, ok) ==
  /\ pc[p] = "write"
  /\ transport
  /\ wire' = wire \cup {Frame(p)}
  /\ written' = written + 1
  /\ IF ok
       THEN /\ pc' = [pc EXCEPT ![p] = "wait"]
            /\ UNCHANGED <<loc, outcome>>
       ELSE /\ outcome' = [proc |-> p, res |-> "TransportError"]
            /\ pc' = [pc EXCEPT ![p] = "idle"]
            /\ loc' = [loc EXCEPT ![p] = NoLocals]
  /\ UNCHANGED <<lastMessageID, seqNo, encrypted, serviceModeActivated, transport,
                 expectedTypes, responseChannels, router, rResult, nullSenders,
                 generated, calls, chanCount, delivered>>
  /\ UNCHANGED <<cacheVars, journalVars, lockVars>>

\* ------------------------------------------------------- the reply channel
\* network.go:38: the goroutine's `resp <- &objects.Null{}` meets the
\* caller's receive.
RecvNull(p) ==
  /\ pc[p] = "wait"
  /\ nullSenders[loc[p].resp] > 0
  /\ nullSenders' = [nullSenders EXCEPT ![loc[p].resp] = @ - 1]
  /\ outcome' = [proc |-> p, res |-> "Null"]
  /\ pc' = [pc EXCEPT ![p] = "idle"]
  /\ loc' = [loc EXCEPT ![p] = NoLocals]
  /\ UNCHANGED <<lastMessageID, seqNo, encrypted, serviceModeActivated, transport,
                 expectedTypes, responseChannels, router, rResult, wire, written,
                 generated, calls, chanCount, delivered>>
  /\ UNCHANGED <<cacheVars, journalVars, lockVars>>

\* A caller that stops waiting for its reply (cancellation by its own
\* deadline): the channel is left without a receiver.
Abandon(p) ==
  /\ pc[p] = "wait"
  /\ pc' = [pc EXCEPT ![p] = "idle"]
  /\ loc' = [loc EXCEPT ![p] = NoLocals]
  /\ UNCHANGED <<lastMessageID, seqNo, encrypted, serviceModeActivated, transport,
                 expectedTypes, responseChannels, outcome, router, rResult,
                 nullSenders, wire, written, generated, calls, chanCount, delivered>>
  /\ UNCHANGED <<cacheVars, journalVars, lockVars>>

\* -------------------------------------------- writeRPCResponse (network.go)
\* A lookup failure that clears the hints of the unknown ID on its way out.
WriteMissDropsTypes(id) ==
  /\ router.pc = "idle"
  /\ id \notin DOMAIN responseChannels
  /\ rResult' = "UnknownMessageId"
  /\ expectedTypes' = Del(expectedTypes, id)
  /\ UNCHANGED <<lastMessageID, seqNo, encrypted, serviceModeActivated, transport,
                 responseChannels, pc, loc, outcome, router, nullSenders, wire,
                 written, generated, calls, chanCount, delivered>>
  /\ UNCHANGED <<cacheVars, journalVars, lockVars>>

\* network.go:70-73: no channel under msgID: an error, nothing else.
WriteMiss(id) ==
  /\ router.pc = "idle"
  /\ id \notin DOMAIN responseChannels
  /\ rResult' = "UnknownMessageId"
  /\ UNCHANGED <<lastMessageID, seqNo, encrypted, serviceModeActivated, transport,
                 expectedTypes, responseChannels, pc, loc, outcome, router,
                 nullSenders, wire, written, generated, calls, chanCount, delivered>>
  /\ UNCHANGED <<cacheVars, journalVars, lockVars>>

\* network.go:70: the channel is looked up.
WriteGet(id, data) ==
  /\ router.pc = "idle"
  /\ id \in DOMAIN responseChannels
  /\ router' = [pc |-> "send", msgID |-> id, data |-> data,
                ch |-> responseChannels[id]]
  /\ rResult' = "none"
  /\ UNCHANGED <<lastMessageID, seqNo, encrypted, serviceModeActivated, transport,
                 expectedTypes, responseChannels, pc, loc, outcome, nullSenders,
                 wire, written, generated, calls, chanCount, delivered>>
  /\ UNCHANGED <<cacheVars, journalVars, lockVars>>

\* network.go:74: `v <- data` on an unbuffered channel completes only
\* together with a receive on that channel.
WriteSend(p) ==
  /\ router.pc = "send"
  /\ pc[p] = "wait"
  /\ loc[p].resp = router.ch
  /\ outcome' = [proc |-> p, res |-> router.data]
  /\ pc' = [pc EXCEPT ![p] = "idle"]
  /\ loc' = [loc EXCEPT ![p] = NoLocals]
  /\ delivered' = [delivered EXCEPT ![router.msgID] = @ + 1]
  /\ router' = [router EXCEPT !.pc = "del1"]
  /\ UNCHANGED <<lastMessageID, seqNo, encrypted, serviceModeActivated, transport,
                 expectedTypes, responseChannels, rResult, nullSenders, wire,
                 written, generated, calls, chanCount>>
  /\ UNCHANGED <<cacheVars, journalVars, lockVars>>

\* network.go:75: m.responseChannels.Delete(msgID).
WriteDeleteChannel ==
  /\ router.pc = "del1"
  /\ responseChannels' = Del(responseChannels, router.msgID)
  /\ router' = [router EXCEPT !.pc = "del2"]
  /\ UNCHANGED <<lastMessageID, seqNo, encrypted, serviceModeActivated, transport,
                 expectedTypes, pc, loc, outcome, rResult, nullSenders, wire,
                 written, generated, calls, chanCount, delivered>>
  /\ UNCHANGED <<cacheVars, journalVars, lockVars>>

\* network.go:76-77: m.expectedTypes.Delete(msgID); return nil.
WriteDeleteTypes ==
  /\ router.pc = "del2"
  /\ expectedTypes' = Del(expectedTypes, router.msgID)
  /\ router' = IdleRouter
  /\ rResult' = "ok"
  /\ UNCHANGED <<lastMessageID, seqNo, encrypted, serviceModeActivated, transport,
                 responseChannels, pc, loc, outcome, nullSenders, wire, written,
                 generated, calls, chanCount, delivered>>
  /\ UNCHANGED <<cacheVars, journalVars, lockVars>>

\* ------------------------------------------------------------ session state
\* The handshake completes: the session turns encrypted and leaves service
\* mode.
HandshakeDone ==
  /\ ~encrypted
  /\ encrypted' = TRUE
  /\ serviceModeActivated' = FALSE
  /\ UNCHANGED <<lastMessageID, seqNo, transport, expectedTypes, responseChannels,
                 pc, loc, outcome, router, rResult, nullSenders, wire, written,
                 generated, calls, chanCount, delivered>>
  /\ UNCHANGED <<cacheVars, journalVars, lockVars>>

\* SetTransport: m.transport becomes non-nil.
SetTransport ==
  /\ ~transport
  /\ transport' = TRUE
  /\ UNCHANGED <<lastMessageID, seqNo, encrypted, serviceModeActivated,
                 expectedTypes, responseChannels, pc, loc, outcome, router, rResult,
                 nullSenders, wire, written, generated, calls, chanCount, delivered>>
  /\ UNCHANGED <<cacheVars, journalVars, lockVars>>

\* ============================================= entity cache (telegram/cache.go)
EntityIDs == 1..MaxID

Hashes == 1..MaxHash

\* The peer IDs callers pass to GetInputPeer: bare IDs, the same with the
\* channel prefix, the prefix alone, and a negative ID without it.
RawPeerIDs == EntityIDs \cup {-1000 - i : i \in EntityIDs} \cup {-100, -1}

NoFetch == [kind |-> "none", id |-> 0]

NoCall == [op |-> "none", arg |-> 0, res |-> "none", id |-> 0, hash |-> 0]

\* strconv.Itoa, strings.HasPrefix, strings.TrimPrefix, strconv.Atoi on
\* strings kept as sequences of characters.
DigitChar(d) == <<"0", "1", "2", "3", "4", "5", "6", "7", "8", "9">>[d + 1]

RECURSIVE Digits(_)
Digits(n) == IF n < 10 THEN <<DigitChar(n)>>
             ELSE Digits(n \div 10) \o <<DigitChar(n % 10)>>

Itoa(n) == IF n < 0 THEN <<"-">> \o Digits(0 - n) ELSE Digits(n)

HasPrefix(str, pre) ==
  /\ Len(str) >= Len(pre)
  /\ SubSeq(str, 1, Len(pre)) = pre

TrimPrefix(str, pre) ==
  IF HasPrefix(str, pre) THEN SubSeq(str, Len(pre) + 1, Len(str)) ELSE str

DigitValue(ch) == CHOOSE d \in 0..9 : DigitChar(d) = ch

IsDigit(ch) == \E d \in 0..9 : DigitChar(d) = ch

RECURSIVE DigitsValue(_)
DigitsValue(str) ==
  IF Len(str) = 0 THEN 0
  ELSE 10 * DigitsValue(SubSeq(str, 1, Len(str) - 1)) + DigitValue(str[Len(str)])

Atoi(str) ==
  LET body == IF Len(str) > 0 /\ str[1] \in {"-", "+"}
                THEN SubSeq(str, 2, Len(str)) ELSE str
  IN IF Len(body) = 0 \/ \E i \in 1..Len(body) : ~IsDigit(body[i])
       THEN [ok |-> FALSE, val |-> 0]
       ELSE [ok |-> TRUE,
             val |-> IF Len(str) > 0 /\ str[1] = "-"
                       THEN 0 - DigitsValue(body) ELSE DigitsValue(body)]

ChannelPrefix == <<"-", "1", "0", "0">>

\* A user lookup that reads the channel index.
getUserPeerFromChannels(userID) ==
  IF userID \in DOMAIN InputChannels
    THEN [ok |-> TRUE, id |-> userID, hash |-> InputChannels[userID]]
    ELSE [ok |-> FALSE, id |-> userID, hash |-> 0]

\* cache.go:158-165 and 167-174: the index entry of a user, of a channel.
getUserPeer(userID) ==
  IF userID \in DOMAIN InputUsers
    THEN [ok |-> TRUE, id |-> userID, hash |-> InputUsers[userID]]
    ELSE [ok |-> FALSE, id |-> userID, hash |-> 0]

getChannelPeer(channelID) ==
  IF channelID \in DOMAIN InputChannels
    THEN [ok |-> TRUE, id |-> channelID, hash |-> InputChannels[channelID]]
    ELSE [ok |-> FALSE, id |-> channelID, hash |-> 0]

\* A probe that tries the channel index before the chat index.
LookupPeerChannelsFirst(peerID) ==
  IF peerID \in DOMAIN InputUsers
    THEN [kind |-> "user", id |-> peerID, hash |-> InputUsers[peerID]]
  ELSE IF peerID \in DOMAIN InputChannels
    THEN [kind |-> "channel", id |-> peerID, hash |-> InputChannels[peerID]]
  ELSE IF peerID \in DOMAIN InputChats
    THEN [kind |-> "chat", id |-> peerID, hash |-> 0]
  ELSE [kind |-> "PeerNotFound", id |-> peerID, hash |-> 0]

\* cache.go:188-205: users, then chats, then channels.
LookupPeer(peerID) ==
  IF peerID \in DOMAIN InputUsers
    THEN [kind |-> "user", id |-> peerID, hash |-> InputUsers[peerID]]
  ELSE IF peerID \in DOMAIN InputChats
    THEN [kind |-> "chat", id |-> peerID, hash |-> 0]
  ELSE IF peerID \in DOMAIN InputChannels
    THEN [kind |-> "channel", id |-> peerID, hash |-> InputChannels[peerID]]
  ELSE [kind |-> "PeerNotFound", id |-> peerID, hash |-> 0]

\* cache.go:176-206.
GetInputPeer(peerID) ==
  IF HasPrefix(Itoa(peerID), ChannelPrefix)
    THEN LET parsed == Atoi(TrimPrefix(Itoa(peerID), ChannelPrefix))
         IN IF parsed.ok THEN LookupPeer(parsed.val)
            ELSE [kind |-> "AtoiError", id |-> peerID, hash |-> 0]
    ELSE LookupPeer(peerID)

\* The record maps as get*FromCache scans them (cache.go:213-217, 240-244,
\* 270-274): the values are compared by their ID field.
HasRecord(m, id) == \E k \in DOMAIN m : m[k].ID = id

RecordOf(m, id) == m[CHOOSE k \in DOMAIN m : m[k].ID = id]

CacheInit ==
  /\ users = EmptyMap
  /\ chats = EmptyMap
  /\ channels = EmptyMap
  /\ InputUsers = EmptyMap
  /\ InputChats = EmptyMap
  /\ InputChannels = EmptyMap
  /\ readers = 0
  /\ fetch = NoFetch
  /\ batch = << >>
  /\ last = NoCall
  /\ touched = {}

\* An upsert that stores the record and leaves the index alone.
UpdateUserRecordOnly(id, hash) ==
  /\ readers = 0
  /\ users' = Put(users, id, [ID |-> id, AccessHash |-> hash])
  /\ touched' = touched \ {id}
  /\ UNCHANGED <<chats, channels, InputUsers, InputChats, InputChannels, readers,
                 fetch, last>>

\* cache.go:321-327.
UpdateUser(id, hash) ==
  /\ readers = 0
  /\ users' = Put(users, id, [ID |-> id, AccessHash |-> hash])
  /\ InputUsers' = Put(InputUsers, id, hash)
  /\ touched' = touched \ {id}
  /\ UNCHANGED <<chats, channels, InputChats, InputChannels, readers, fetch,
                 last>>

\* cache.go:329-335.
UpdateChannel(id, hash) ==
  /\ readers = 0
  /\ channels' = Put(channels, id, [ID |-> id, AccessHash |-> hash])
  /\ InputChannels' = Put(InputChannels, id, hash)
  /\ UNCHANGED <<users, chats, InputUsers, InputChats, readers, fetch, last, touched>>

\* An upsert of a chat that stores the record and leaves the index alone.
UpdateChatRecordOnly(id) ==
  /\ readers = 0
  /\ chats' = Put(chats, id, [ID |-> id])
  /\ UNCHANGED <<users, channels, InputUsers, InputChats, InputChannels, readers,
                 fetch, last, touched>>

\* cache.go:337-343: the chat index holds the chat's own ID.
UpdateChat(id) ==
  /\ readers = 0
  /\ chats' = Put(chats, id, [ID |-> id])
  /\ InputChats' = Put(InputChats, id, id)
  /\ UNCHANGED <<users, channels, InputUsers, InputChannels, readers, fetch,
                 last, touched>>

UpdateUserCall(id, hash) == UpdateUser(id, hash) /\ UNCHANGED <<batch, netVars, journalVars, lockVars>>

UpdateChannelCall(id, hash) == UpdateChannel(id, hash) /\ UNCHANGED <<batch, netVars, journalVars, lockVars>>

UpdateChatCall(id) == UpdateChat(id) /\ UNCHANGED <<batch, netVars, journalVars, lockVars>>

\* What the server sends as users and as chats: the concrete kinds the
\* cache stores and one kind of each it does not know.
UserObjects == [kind : {"UserObj"}, id : EntityIDs, hash : Hashes]
                 \cup [kind : {"UserEmpty"}, id : EntityIDs, hash : {0}]

ChatObjects == [kind : {"ChatObj", "ChatForbidden"}, id : EntityIDs, hash : {0}]
                 \cup [kind : {"Channel"}, id : EntityIDs, hash : Hashes]

ListsOf(S) == {<< >>} \cup {<<x>> : x \in S}

\* cache.go:345-363: the users, then the chats, each under its own lock.
UpdatePeersToCache(u, c) ==
  /\ batch = << >>
  /\ u \o c # << >>
  /\ batch' = u \o c
  /\ UNCHANGED <<users, chats, channels, InputUsers, InputChats, InputChannels,
                 readers, fetch, last, touched>>
  /\ UNCHANGED <<netVars, journalVars, lockVars>>

UpdatePeersStep ==
  /\ batch # << >>
  /\ batch' = Tail(batch)
  /\ LET e == Head(batch) IN
       CASE e.kind = "UserObj" -> UpdateUser(e.id, e.hash)
         [] e.kind = "ChatObj" -> UpdateChat(e.id)
         [] e.kind = "Channel" -> UpdateChannel(e.id, e.hash)
         [] OTHER -> UNCHANGED <<users, chats, channels, InputUsers, InputChats,
                                 InputChannels, readers, fetch, last,
                                 touched>>
  /\ UNCHANGED <<netVars, journalVars, lockVars>>

\* The bytes ImportJSON is given: a peer-handle index as ExportJSON of some
\* cache wrote it; an empty map is left out of the JSON (omitempty).
IndexMaps == {EmptyMap} \cup {[x \in {i} |-> h] : i \in EntityIDs, h \in Hashes}

\* The chat index maps a chat ID to itself (cache.go:342).
ChatIndexMaps == {EmptyMap} \cup {[x \in {i} |-> i] : i \in EntityIDs}

Payloads == [channels : IndexMaps, users : IndexMaps, chats : ChatIndexMaps]

\* json.Unmarshal into a map that exists: the entries of the JSON are put
\* into it, the others stay.
Merge(m, n) == [x \in (DOMAIN m) \cup (DOMAIN n) |-> IF x \in DOMAIN n THEN n[x] ELSE m[x]]

\* cache.go:116-121.
ImportJSON(data) ==
  /\ readers = 0
  /\ InputChannels' = Merge(InputChannels, data.channels)
  /\ InputUsers' = Merge(InputUsers, data.users)
  /\ InputChats' = Merge(InputChats, data.chats)
  /\ touched' = touched \cup (DOMAIN data.users \cap DOMAIN users)
  /\ UNCHANGED <<users, chats, channels, readers, fetch, batch, last>>
  /\ UNCHANGED <<netVars, journalVars, lockVars>>

\* cache.go:176-206 as a call: the result is kept in last.
GetInputPeerCall(raw) ==
  /\ LET r == GetInputPeer(raw) IN
       last' = [op |-> "GetInputPeer", arg |-> raw, res |-> r.kind, id |-> r.id,
                hash |-> r.hash]
  /\ UNCHANGED <<users, chats, channels, InputUsers, InputChats, InputChannels,
                 readers, fetch, batch, touched>>
  /\ UNCHANGED <<netVars, journalVars, lockVars>>

\* cache.go:213-221: the record map is scanned, then the user index.
UserLookup(userID) ==
  IF HasRecord(users, userID)
    THEN [res |-> "cached", hash |-> RecordOf(users, userID).AccessHash]
  ELSE IF getUserPeer(userID).ok THEN [res |-> "fetch", hash |-> 0]
  ELSE [res |-> "NotFound", hash |-> 0]

\* cache.go:240-248.
ChannelLookup(channelID) ==
  IF HasRecord(channels, channelID)
    THEN [res |-> "cached", hash |-> RecordOf(channels, channelID).AccessHash]
  ELSE IF getChannelPeer(channelID).ok THEN [res |-> "fetch", hash |-> 0]
  ELSE [res |-> "NotFound", hash |-> 0]

\* cache.go:270-275: the chat index is not consulted; MessagesGetChats is
\* called with the bare ID.
ChatLookup(chatID) ==
  IF HasRecord(chats, chatID) THEN [res |-> "cached", hash |-> 0]
  ELSE [res |-> "fetch", hash |-> 0]

\* A get*FromCache call up to its return or to the delegated request, which
\* is made with the read lock still held (the RUnlock is deferred).
GetCall(op, id, r) ==
  /\ fetch = NoFetch
  /\ last' = [op |-> op, arg |-> id, res |-> r.res, id |-> id, hash |-> r.hash]
  /\ fetch' = IF r.res = "fetch" THEN [kind |-> op, id |-> id] ELSE NoFetch
  /\ readers' = IF r.res = "fetch" THEN readers + 1 ELSE readers
  /\ UNCHANGED <<users, chats, channels, InputUsers, InputChats, InputChannels,
                 batch, touched>>
  /\ UNCHANGED <<netVars, journalVars, lockVars>>

\* cache.go:210-234, 295-301.
getUserFromCache(userID) == GetCall("GetUser", userID, UserLookup(userID))

\* cache.go:236-265, 303-309.
getChannelFromCache(channelID) ==
  GetCall("GetChannel", channelID, ChannelLookup(channelID))

\* cache.go:267-291, 311-317.
getChatFromCache(chatID) == GetCall("GetChat", chatID, ChatLookup(chatID))

\* cache.go:222-233, 249-264, 275-290: the reply of the delegated request
\* is returned to the caller (or an error is); the deferred RUnlock runs.
FetchReturn(found, hash) ==
  /\ fetch # NoFetch
  /\ last' = [op |-> fetch.kind, arg |-> fetch.id,
              res |-> IF found THEN "fetched" ELSE "FetchFailed", id |-> fetch.id,
              hash |-> IF found /\ fetch.kind # "GetChat" THEN hash ELSE 0]
  /\ fetch' = NoFetch
  /\ readers' = readers - 1
  /\ UNCHANGED <<users, chats, channels, InputUsers, InputChats, InputChannels,
                 batch, touched>>
  /\ UNCHANGED <<netVars, journalVars, lockVars>>

CacheNext ==
  \/ \E i \in EntityIDs, h \in Hashes : UpdateUserCall(i, h)
  \/ \E i \in EntityIDs, h \in Hashes : UpdateChannelCall(i, h)
  \/ \E i \in EntityIDs : UpdateChatCall(i)
  \/ \E u \in ListsOf(UserObjects), c \in ListsOf(ChatObjects) : UpdatePeersToCache(u, c)
  \/ UpdatePeersStep
  \/ \E d \in Payloads : ImportJSON(d)
  \/ \E raw \in RawPeerIDs : GetInputPeerCall(raw)
  \/ \E i \in EntityIDs : getUserFromCache(i)
  \/ \E i \in EntityIDs : getChannelFromCache(i)
  \/ \E i \in EntityIDs : getChatFromCache(i)
  \/ \E found \in BOOLEAN, h \in Hashes : FetchReturn(found, h)

\* ============================== journal and export (telegram/cache.go:48-156)
\* A file: absent, empty (created, nothing valid written) or written with a
\* JSON object.  A JSON object is a function from its keys.
NoFile == [state |-> "absent", data |-> EmptyMap]

EmptyFile == [state |-> "empty", data |-> EmptyMap]

NoExport == [state |-> "none", data |-> EmptyMap,
             from |-> [channels |-> EmptyMap, users |-> EmptyMap, chats |-> EmptyMap]]

JournalInit ==
  /\ journal = NoFile
  /\ timers = 0
  /\ loadResult = "none"
  /\ signalled = FALSE
  /\ exported = NoExport

\* encoding/json on a map[int64]int64: the keys become decimal strings.
MarshalMap(m) ==
  [str \in {Itoa(k) : k \in DOMAIN m} |-> m[CHOOSE k \in DOMAIN m : Itoa(k) = str]]

IndexFields == {"channels", "users", "chats"}

\* An index written without its chats.
MarshalIndexNoChats(ch, us, cs) ==
  LET maps == [channels |-> ch, users |-> us, chats |-> cs]
  IN [f \in {g \in {"channels", "users"} : DOMAIN maps[g] # {}} |-> MarshalMap(maps[f])]

\* cache.go:42-46: json.Marshal of an InputPeerCache; omitempty leaves an
\* empty map out.
MarshalIndex(ch, us, cs) ==
  LET maps == [channels |-> ch, users |-> us, chats |-> cs]
  IN [f \in {g \in IndexFields : DOMAIN maps[g] # {}} |-> MarshalMap(maps[f])]

\* cache.go:26-33, 52: json.Marshal of the CACHE: its one exported field.
MarshalCache ==
  [f \in {"input_peers"} |-> MarshalIndex(InputChannels, InputUsers, InputChats)]

\* json.Unmarshal of an object into a map[int64]int64: the keys are parsed
\* as integers.
UnmarshalMap(js) ==
  LET good == {str \in DOMAIN js : Atoi(str).ok}
  IN [k \in {Atoi(str).val : str \in good} |->
        js[CHOOSE str \in good : Atoi(str).val = k]]

\* The maps a JSON object holds for an InputPeerCache; a field that is left
\* out changes nothing.
UnmarshalIndex(js) ==
  [channels |-> IF "channels" \in DOMAIN js THEN UnmarshalMap(js["channels"]) ELSE EmptyMap,
   users |-> IF "users" \in DOMAIN js THEN UnmarshalMap(js["users"]) ELSE EmptyMap,
   chats |-> IF "chats" \in DOMAIN js THEN UnmarshalMap(js["chats"]) ELSE EmptyMap]

UnmarshalCache(js) ==
  IF "input_peers" \in DOMAIN js THEN UnmarshalIndex(js["input_peers"])
  ELSE UnmarshalIndex(EmptyMap)

\* cache.go:109-114.
ExportJSON ==
  /\ exported' = [state |-> "written",
                  data |-> MarshalIndex(InputChannels, InputUsers, InputChats),
                  from |-> [channels |-> InputChannels, users |-> InputUsers,
                            chats |-> InputChats]]
  /\ UNCHANGED <<journal, timers, loadResult, signalled>>
  /\ UNCHANGED <<netVars, cacheVars, lockVars>>

\* cache.go:116-121 on the bytes of the last ExportJSON.
ImportExported ==
  /\ exported.state = "written"
  /\ ImportJSON(UnmarshalIndex(exported.data))

\* cache.go:123-141: a process starts with an empty cache; the files stay.
NewCache ==
  /\ users' = EmptyMap
  /\ chats' = EmptyMap
  /\ channels' = EmptyMap
  /\ InputUsers' = EmptyMap
  /\ InputChats' = EmptyMap
  /\ InputChannels' = EmptyMap
  /\ readers' = 0
  /\ fetch' = NoFetch
  /\ batch' = << >>
  /\ last' = NoCall
  /\ touched' = {}
  /\ timers' = 0
  /\ loadResult' = "none"
  /\ signalled' = FALSE
  /\ UNCHANGED <<journal, exported>>
  /\ UNCHANGED <<netVars, lockVars>>

\* cache.go:75-107: a missing or empty file changes nothing; a written one
\* is unmarshalled into the cache.  No lock is taken.
loadFromFile ==
  IF journal.state = "written"
    THEN LET data == UnmarshalCache(journal.data) IN
           /\ InputChannels' = Merge(InputChannels, data.channels)
           /\ InputUsers' = Merge(InputUsers, data.users)
           /\ InputChats' = Merge(InputChats, data.chats)
           /\ touched' = touched \cup (DOMAIN data.users \cap DOMAIN users)
           /\ loadResult' = "Loaded"
    ELSE /\ UNCHANGED <<InputChannels, InputUsers, InputChats, touched>>
         /\ loadResult' = IF journal.state = "absent" THEN "NoFile" ELSE "EmptyFile"

\* cache.go:143-147: the journal is loaded, the signal handler started and
\* the first timer armed.
startCacheFileUpdater ==
  /\ loadResult = "none"
  /\ loadFromFile
  /\ timers' = timers + 1
  /\ UNCHANGED <<users, chats, channels, readers, fetch, batch, last>>
  /\ UNCHANGED <<journal, signalled, exported>>
  /\ UNCHANGED <<netVars, lockVars>>

\* What a run of flushToFile can end in: os.Create, io.WriteString or
\* file.Close failing, or none of them.
FlushResults == {"ok", "CreateError", "WriteError", "CloseError"}

\* cache.go:52-71: the file after the run.
FlushedFile(result) ==
  CASE result = "CreateError" -> journal
    [] result = "WriteError" -> EmptyFile
    [] OTHER -> [state |-> "written", data |-> MarshalCache]

\* cache.go:48-73 run by a timer: under the write lock; line 72 arms the
\* next timer, and every error return comes before it.
flushToFile(result) ==
  /\ timers > 0
  /\ readers = 0
  /\ journal' = FlushedFile(result)
  /\ timers' = IF result = "ok" THEN timers ELSE timers - 1
  /\ UNCHANGED <<loadResult, signalled, exported>>
  /\ UNCHANGED <<netVars, cacheVars, lockVars>>

\* cache.go:149-156: on SIGINT or SIGTERM the same flushToFile, once.
writeOnKill(result) ==
  /\ loadResult # "none"
  /\ ~signalled
  /\ readers = 0
  /\ signalled' = TRUE
  /\ journal' = FlushedFile(result)
  /\ timers' = IF result = "ok" THEN timers + 1 ELSE timers
  /\ UNCHANGED <<loadResult, exported>>
  /\ UNCHANGED <<netVars, cacheVars, lockVars>>

\* The updates that arrive beside the journal: one object each.
JournalBatches ==
  {b \in [u : ListsOf(UserObjects), c : ListsOf(ChatObjects)] : Len(b.u) + Len(b.c) = 1}

JournalNext ==
  \/ \E i \in EntityIDs, h \in Hashes : UpdateUserCall(i, h)
  \/ \E i \in EntityIDs, h \in Hashes : UpdateChannelCall(i, h)
  \/ \E i \in EntityIDs : UpdateChatCall(i)
  \/ \E b \in JournalBatches : UpdatePeersToCache(b.u, b.c)
  \/ UpdatePeersStep
  \/ \E d \in Payloads : ImportJSON(d)
  \/ startCacheFileUpdater
  \/ \E r \in FlushResults : flushToFile(r)
  \/ \E r \in FlushResults : writeOnKill(r)
  \/ NewCache

\* ============================ the cache lock (telegram/cache.go, *sync.RWMutex)
Goroutines == 1..NumGoroutines

CacheOps == {"UpdateUser", "UpdateChannel", "UpdateChat", "ImportJSON",
             "flushToFile", "loadFromFile", "ExportJSON", "GetInputPeer",
             "getUserFromCache", "getChannelFromCache", "getChatFromCache",
             "GetPeerUser", "GetPeerChannel"}

\* What each operation takes before it touches the maps: c.Lock() (cache.go:
\* 49, 117, 322, 330, 338), c.RLock() (110, 188, 211, 237, 268) or nothing
\* (75-107, 365-378).
LockMode(op) ==
  CASE op \in {"UpdateUser", "UpdateChannel", "UpdateChat", "ImportJSON",
               "flushToFile"} -> "W"
    [] op \in {"ExportJSON", "GetInputPeer", "getUserFromCache",
               "getChannelFromCache", "getChatFromCache"} -> "R"
    [] OTHER -> "none"

\* Whether the operation writes a record map or an index map, or only reads.
MapAccess(op) ==
  IF op \in {"UpdateUser", "UpdateChannel", "UpdateChat", "ImportJSON",
             "loadFromFile"}
    THEN "write" ELSE "read"

Outside == [op |-> "idle", lock |-> "none"]

LockInit ==
  /\ writer = 0
  /\ gor = [g \in Goroutines |-> Outside]

\* A goroutine gets into an operation: past its Lock or RLock, if it has
\* one, and at the maps.
Enter(g, op) ==
  /\ gor[g] = Outside
  /\ CASE LockMode(op) = "W" ->
            /\ writer = 0
            /\ readers = 0
            /\ writer' = g
            /\ UNCHANGED readers
       [] LockMode(op) = "R" ->
            /\ writer = 0
            /\ readers' = readers + 1
            /\ UNCHANGED writer
       [] OTHER -> UNCHANGED <<writer, readers>>
  /\ gor' = [gor EXCEPT ![g] = [op |-> op, lock |-> LockMode(op)]]
  /\ UNCHANGED <<users, chats, channels, InputUsers, InputChats, InputChannels,
                 fetch, batch, last, touched>>
  /\ UNCHANGED <<netVars, journalVars>>

\* The operation returns: the deferred Unlock or RUnlock runs.
Leave(g) ==
  /\ gor[g] # Outside
  /\ writer' = IF gor[g].lock = "W" THEN 0 ELSE writer
  /\ readers' = IF gor[g].lock = "R" THEN readers - 1 ELSE readers
  /\ gor' = [gor EXCEPT ![g] = Outside]
  /\ UNCHANGED <<users, chats, channels, InputUsers, InputChats, InputChannels,
                 fetch, batch, last, touched>>
  /\ UNCHANGED <<netVars, journalVars>>

LockNext ==
  \/ \E g \in Goroutines, op \in CacheOps : Enter(g, op)
  \/ \E g \in Goroutines : Leave(g)

\* ------------------------------------------------- export and import again
\* The indexes an earlier run of Update* calls leaves, over a small and a
\* two-digit ID.
RoundTripIDs == EntityIDs \cup {BigID}

HashMaps == UNION {[D -> Hashes] : D \in SUBSET RoundTripIDs}

RoundTripInit ==
  /\ NetInit
  /\ encrypted
  /\ transport
  /\ JournalInit
  /\ LockInit
  /\ InputUsers \in HashMaps
  /\ InputChannels \in HashMaps
  /\ InputChats \in {[k \in D |-> k] : D \in SUBSET RoundTripIDs}
  /\ users = [k \in DOMAIN InputUsers |-> [ID |-> k, AccessHash |-> InputUsers[k]]]
  /\ channels = [k \in DOMAIN InputChannels |->
                   [ID |-> k, AccessHash |-> InputChannels[k]]]
  /\ chats = [k \in DOMAIN InputChats |-> [ID |-> k]]
  /\ readers = 0
  /\ fetch = NoFetch
  /\ batch = << >>
  /\ last = NoCall
  /\ touched = {}

RoundTripNext ==
  \/ ExportJSON
  \/ NewCache
  \/ ImportExported

\* ================================================================ claims
Registered(p) == pc[p] \in {"env", "seq", "write", "wait"}

AllAtRest == \A p \in Procs : pc[p] \in {"idle", "wait"}

\* C1: under any interleaving of concurrent sendPacket calls, no two calls
\* hold the same message ID.
C1_DistinctMessageIDs ==
  \A p, q \in Procs :
    (p # q /\ loc[p].msgID # 0 /\ loc[q].msgID # 0) => loc[p].msgID # loc[q].msgID

\* C2: the stored lastMessageID never decreases, and every message ID
\* generated is greater than every message ID generated before it.
C2_MessageIDsIncrease ==
  [][ /\ lastMessageID' >= lastMessageID
      /\ \A id \in MsgIDs :
           generated'[id] > generated[id] =>
             \A j \in MsgIDs : j >= id => generated[j] = 0 ]_vars

C4_DeliveredAtMostOnce == \A id \in MsgIDs : delivered[id] <= 1

\* C5: a writeRPCResponse call that finds no channel under its message ID
\* returns the error and changes neither table, and nothing is sent to any
\* reply channel.
C5_MissChangesNothing ==
  [][ (rResult' # rResult /\ rResult' = "UnknownMessageId") =>
        UNCHANGED <<responseChannels, expectedTypes, pc, loc, outcome,
                    nullSenders, delivered>> ]_vars

\* A lookup failed while both tables held entries.
C5_Witness ==
  /\ rResult = "UnknownMessageId"
  /\ DOMAIN responseChannels # {}
  /\ DOMAIN expectedTypes # {}
  /\ DOMAIN expectedTypes # DOMAIN responseChannels

\* C6: a delivery is never stuck: whenever writeRPCResponse is sending on a
\* per-request reply channel, some caller still holds that channel and can
\* receive from it.
C6_DeliveryNeverStuck ==
  (router.pc = "send" /\ router.ch # ServiceChan) =>
    \E p \in Procs : Registered(p) /\ loc[p].resp = router.ch

\* C7: the stored seqNo changes only in a submit, on an encrypted session,
\* of a message that requires acknowledgment; a plaintext submit leaves it
\* unchanged.
C7_SeqNoOnlyForAcked ==
  [][ seqNo' # seqNo =>
        \E p \in Procs : /\ pc[p] = "seq"
                         /\ pc'[p] = "write"
                         /\ encrypted
                         /\ MessageRequireToAck(loc[p].req) ]_vars

\* C8: a submit of a request that never gets a reply (Pong, MsgsAck) leaves
\* no entry under its message ID in either table, hints passed or not.
C8_NullableRegistersNothing ==
  \A p \in Procs :
    (Registered(p) /\ isNullableResponse(loc[p].req)) =>
      /\ loc[p].msgID \notin DOMAIN responseChannels
      /\ loc[p].msgID \notin DOMAIN expectedTypes

\* A get*FromCache call has just been made (not the return of its fetch).
Looked(op) ==
  /\ last' # last
  /\ last'.op = op
  /\ last'.res \in {"cached", "fetch", "NotFound"}

\* C9 as claimed: a GetUser, GetChannel or GetChat call for an ID with no
\* cached record and no entry in the matching index fails with not-found and
\* issues no delegated fetch.
C9_NotFoundWithoutFetch ==
  [][ /\ (Looked("GetUser") /\ ~HasRecord(users, last'.arg)
            /\ last'.arg \notin DOMAIN InputUsers)
          => (last'.res = "NotFound" /\ fetch' = NoFetch)
      /\ (Looked("GetChannel") /\ ~HasRecord(channels, last'.arg)
            /\ last'.arg \notin DOMAIN InputChannels)
          => (last'.res = "NotFound" /\ fetch' = NoFetch)
      /\ (Looked("GetChat") /\ ~HasRecord(chats, last'.arg)
            /\ last'.arg \notin DOMAIN InputChats)
          => (last'.res = "NotFound" /\ fetch' = NoFetch) ]_vars

\* C9 amended: that holds of GetUser and GetChannel; a GetChat call for an ID
\* with no cached record issues the delegated fetch, whatever the chat index
\* holds.
C9_NotFoundUserChannel ==
  [][ /\ (Looked("GetUser") /\ ~HasRecord(users, last'.arg)
            /\ last'.arg \notin DOMAIN InputUsers)
          => (last'.res = "NotFound" /\ fetch' = NoFetch /\ readers' = readers)
      /\ (Looked("GetChannel") /\ ~HasRecord(channels, last'.arg)
            /\ last'.arg \notin DOMAIN InputChannels)
          => (last'.res = "NotFound" /\ fetch' = NoFetch /\ readers' = readers)
      /\ (Looked("GetChat") /\ ~HasRecord(chats, last'.arg))
          => (last'.res = "fetch" /\ fetch' = [kind |-> "GetChat", id |-> last'.arg]) ]_vars

\* A user lookup failed with not-found, no fetch in flight, while the channel
\* index knows the same ID.
C9_Witness ==
  /\ last.op = "GetUser"
  /\ last.res = "NotFound"
  /\ fetch = NoFetch
  /\ last.arg \notin DOMAIN InputUsers
  /\ last.arg \in DOMAIN InputChannels

\* What GetUser and GetInputPeer return for a user stored with its hash.
ServedFromUpsert(i) ==
  /\ UserLookup(i) = [res |-> "cached", hash |-> users[i].AccessHash]
  /\ GetInputPeer(i) = [kind |-> "user", id |-> i, hash |-> users[i].AccessHash]

C11_FetchedRecordStored ==
  /\ (last.op = "GetUser" /\ last.res = "fetched"
        /\ last.arg \in DOMAIN InputUsers)
       => UserLookup(last.arg).res = "cached"
  /\ (last.op = "GetChannel" /\ last.res = "fetched"
        /\ last.arg \in DOMAIN InputChannels)
       => ChannelLookup(last.arg).res = "cached"
  /\ (last.op = "GetChat" /\ last.res = "fetched"
        /\ last.arg \in DOMAIN InputChats)
       => ChatLookup(last.arg).res = "cached"

\* The entity a raw peer ID names: the bare ID, or what follows the channel
\* prefix.
CanonicalID(raw) == IF raw < -1000 THEN (0 - raw) - 1000 ELSE raw

\* The reference the claim prescribes for ID i in the current indexes.
PrescribedPeer(i) ==
  CASE i \in DOMAIN InputUsers ->
         [res |-> "user", id |-> i, hash |-> InputUsers[i]]
    [] i \notin DOMAIN InputUsers /\ i \in DOMAIN InputChats ->
         [res |-> "chat", id |-> i, hash |-> 0]
    [] i \notin DOMAIN InputUsers /\ i \notin DOMAIN InputChats
         /\ i \in DOMAIN InputChannels ->
         [res |-> "channel", id |-> i, hash |-> InputChannels[i]]
    [] OTHER -> [res |-> "PeerNotFound", id |-> i, hash |-> 0]

\* C12: a GetInputPeer call returns the user reference with its hash when
\* the normalized ID is in the user index, else the chat reference without
\* hash when it is in the chat index, else the channel reference with its
\* hash when it is in the channel index, else peer-not-found; for every
\* combination of memberships.
C12_ProbeOrder ==
  [][ (last' # last /\ last'.op = "GetInputPeer"
         /\ CanonicalID(last'.arg) \in EntityIDs)
      => LET want == PrescribedPeer(CanonicalID(last'.arg))
         IN /\ last'.res = want.res
            /\ last'.id = want.id
            /\ last'.hash = want.hash ]_vars

\* GetInputPeer has just returned the chat reference for an ID that the chat
\* index and the channel index both hold and the user index does not.
C12_Witness ==
  /\ last.op = "GetInputPeer"
  /\ last.res = "chat"
  /\ last.hash = 0
  /\ last.id \notin DOMAIN InputUsers
  /\ last.id \in DOMAIN InputChats
  /\ last.id \in DOMAIN InputChannels

\* C13: for every channel ID c in the channel index GetInputPeer of c with
\* the channel prefix returns what GetInputPeer of the bare c returns, and
\* no raw ID, the prefix alone (-100) included, makes GetInputPeer fail
\* before the lookup.
C13_PeerIDNormalized ==
  /\ \A c \in DOMAIN InputChannels : GetInputPeer(-1000 - c) = GetInputPeer(c)
  /\ last.op = "GetInputPeer" => last.res # "AtoiError"

Index == [channels |-> InputChannels, users |-> InputUsers, chats |-> InputChats]

IndexEmpty == InputChannels = EmptyMap /\ InputUsers = EmptyMap /\ InputChats = EmptyMap

\* C14: ImportJSON of the bytes ExportJSON made from an index P, into an
\* empty cache, leaves an index equal to P in all three maps: every pair is
\* recovered and none is added.
C14_RoundTrip ==
  [][ (IndexEmpty /\ ImportExported) => Index' = exported.from ]_vars

\* A fresh cache (no records) holds, after the import, the exported index:
\* two users, one of them under a two-digit ID, a chat, and no channel.
C14_Witness ==
  /\ users = EmptyMap
  /\ chats = EmptyMap
  /\ exported.state = "written"
  /\ Index = exported.from
  /\ DOMAIN InputUsers = RoundTripIDs
  /\ BigID \in DOMAIN InputChats
  /\ InputChannels = EmptyMap

C16_FlushRearmed == loadResult # "none" => timers > 0

\* C17: a goroutine reading the maps holds the cache lock at least in read
\* mode, one writing them holds it exclusively, and no goroutine is at the
\* maps while another one writes them.
C17_LockDiscipline ==
  \A g \in Goroutines :
    gor[g] # Outside =>
      /\ MapAccess(gor[g].op) = "read" => gor[g].lock \in {"R", "W"}
      /\ MapAccess(gor[g].op) = "write" => gor[g].lock = "W"
      /\ \A h \in Goroutines \ {g} :
           (gor[h] # Outside /\ MapAccess(gor[h].op) = "write") => FALSE

\* C18: every frame handed to the transport agrees with one value of the
\* encrypted flag: the encrypted envelope with the auth-key hash and the
\* incremented sequence number, or the plaintext envelope without the hash
\* and with sequence number 0; also when the handshake completes during the
\* submit.
C18_FrameConsistent ==
  \A f \in wire :
    \/ f.env = "Encrypted" /\ f.hash /\ f.seqNo # 0
    \/ f.env = "Unencrypted" /\ ~f.hash /\ f.seqNo = 0

\* C19: of two encrypted submits, the one with the smaller message ID has
\* the smaller sequence number.
C19_PairOrdered ==
  \A f, g \in wire :
    (f.env = "Encrypted" /\ g.env = "Encrypted" /\ f.msgID < g.msgID)
      => f.seqNo < g.seqNo

\* C20: a sendPacket call that returns the transport-not-configured error or
\* a write error leaves no entry under its message ID in either table.
C20_FailedSendLeavesNothing ==
  [][ \A p \in Procs :
        (pc[p] = "write" /\ pc'[p] = "idle")
          => /\ loc[p].msgID \notin DOMAIN responseChannels'
             /\ loc[p].msgID \notin DOMAIN expectedTypes' ]_vars

\* C21: while a get*FromCache call is suspended on its delegated fetch, the
\* cache lock is not held, so an upsert started meanwhile can go ahead.
C21_NoFetchUnderLock ==
  fetch # NoFetch =>
    /\ readers = 0
    /\ \A i \in EntityIDs, h \in Hashes : ENABLED UpdateUserCall(i, h)

Init == NetInit /\ CacheInit /\ JournalInit /\ LockInit

NetNext ==
  \/ \E p \in Procs : SendMarshalFail(p)
  \/ \E p \in Procs, r \in Requests, h \in BOOLEAN : SendStart(p, r, h)
  \/ \E p \in Procs : SendGenerate(p)
  \/ \E p \in Procs : SendStoreID(p)
  \/ \E p \in Procs : SendAddTypes(p)
  \/ \E p \in Procs : SendRegister(p)
  \/ \E p \in Procs : SendEnvelope(p)
  \/ \E p \in Procs : SendSeqNo(p)
  \/ \E p \in Procs : SendNoTransport(p)
  \/ \E p \in Procs, ok \in BOOLEAN : SendWrite(p, ok)
  \/ \E p \in Procs : RecvNull(p)
  \/ \E p \in Procs : Abandon(p)
  \/ \E id \in MsgIDs : WriteMiss(id)
  \/ \E id \in MsgIDs, d \in Values : WriteGet(id, d)
  \/ \E p \in Procs : WriteSend(p)
  \/ WriteDeleteChannel
  \/ WriteDeleteTypes
  \/ HandshakeDone
  \/ SetTransport

Next == NetNext

Spec == Init /\ [][Next]_vars

\* The cache on its own, beside a session that is set up and idle.
CacheSpecInit ==
  NetInit /\ encrypted /\ transport /\ CacheInit /\ JournalInit /\ LockInit

CacheSpec == CacheSpecInit /\ [][CacheNext]_vars

\* The journal, the flush timer and process restarts.
JournalSpec == CacheSpecInit /\ [][JournalNext]_vars

\* ExportJSON, a fresh cache, ImportJSON of the exported bytes.
RoundTripSpec == RoundTripInit /\ [][RoundTripNext]_vars

\* Goroutines entering and leaving the cache operations.
LockSpec == CacheSpecInit /\ [][LockNext]_vars
====
